---- MODULE Spec2Model ----
(***************************************************************************)
(* measure-sfn: main.go lists the Step Functions state machines of an      *)
(* account, lists the executions of each, keeps the finished executions of *)
(* the last two months, and writes sfn.csv (one row per execution) and     *)
(* aggregate.csv (max / min / avg duration and count per state machine).   *)
(*                                                                         *)
(* Time.  A time.Time is [day, tod]: the day number counted from           *)
(* 2023-01-01 and the tick within the day.  One tick is 2 ms, so that a    *)
(* time.Duration (nanoseconds in the code) is a number of ticks that fits  *)
(* the 32-bit integers of TLC, and "%.2f" of the seconds really rounds.    *)
(* A pointer is a sequence of length at most one: <<>> is nil.             *)
(* A string that the code splits is a sequence of tokens, each a string.   *)
(***************************************************************************)
EXTENDS Integers, Sequences, FiniteSets, TLC

\* ------------------------------------------------------------------------
\* Bounds of the model
\* ------------------------------------------------------------------------

\* executions the service holds, summed over all state machines
MaxExecs == 2

\* runs of the program against the same service contents
MaxRuns == 2

\* ------------------------------------------------------------------------
\* package time
\* ------------------------------------------------------------------------

TicksPerSecond == 1000 \div 2

TicksPerDay == 24 * 60 * 60 * TicksPerSecond

IsLeap(y) == (y % 4 = 0) /\ ((y % 100 # 0) \/ (y % 400 = 0))

DaysIn(m, y) ==
    IF m = 2 THEN (IF IsLeap(y) THEN 29 ELSE 28)
    ELSE IF m \in {4, 6, 9, 11} THEN 30 ELSE 31

RECURSIVE DaysBeforeYear(_)
DaysBeforeYear(y) ==
    IF y <= 2023 THEN 0
    ELSE DaysBeforeYear(y - 1) + (IF IsLeap(y - 1) THEN 366 ELSE 365)

RECURSIVE DaysBeforeMonth(_, _)
DaysBeforeMonth(m, y) ==
    IF m <= 1 THEN 0 ELSE DaysBeforeMonth(m - 1, y) + DaysIn(m - 1, y)

\* time.Date: the month is normalised into 1..12 (carrying into the year),
\* and a day past the end of the month runs on into the next month.
Date(y, mo, d, tod) ==
    LET m0 == mo - 1
        yN == y + (m0 \div 12)
        mN == (m0 % 12) + 1
    IN  [day |-> DaysBeforeYear(yN) + DaysBeforeMonth(mN, yN) + d - 1,
         tod |-> tod]

\* the civil date <<year, month, day>> of a day number
RECURSIVE CivilFrom(_, _, _)
CivilFrom(y, m, rest) ==
    IF rest >= DaysIn(m, y)
    THEN IF m = 12 THEN CivilFrom(y + 1, 1, rest - DaysIn(m, y))
                   ELSE CivilFrom(y, m + 1, rest - DaysIn(m, y))
    ELSE <<y, m, rest + 1>>

\* a number below 100 in two digits
TwoDigits(n) == ToString(n \div 10) \o ToString(n % 10)

\* Time.Format(time.DateOnly): "2006-01-02", the time of day dropped
FormatDateOnly(t) ==
    LET c == CivilFrom(2023, 1, t.day)
    IN  ToString(c[1]) \o "-" \o TwoDigits(c[2]) \o "-" \o TwoDigits(c[3])

\* Time.AddDate(years, months, days)
AddDate(t, years, months, days) ==
    LET c == CivilFrom(2023, 1, t.day)
    IN  Date(c[1] + years, c[2] + months, c[3] + days, t.tod)

BeforeOrEqual(t, u) ==
    (t.day < u.day) \/ (t.day = u.day /\ t.tod <= u.tod)

\* Time.Before: strictly earlier
Before(t, u) ==
    (t.day < u.day) \/ (t.day = u.day /\ t.tod < u.tod)

SubReversed(t, u) ==
    (u.day - t.day) * TicksPerDay + (u.tod - t.tod)

\* Time.Sub: t - u as a Duration
Sub(t, u) ==
    (t.day - u.day) * TicksPerDay + (t.tod - u.tod)

\* Go's integer division truncates toward zero
Quot(a, b) == IF a >= 0 THEN a \div b ELSE -((-a) \div b)

\* fmt.Sprintf("%.2f", d.Seconds()): the seconds rounded to the nearest
\* hundredth (a whole number of 2 ms ticks is never a tie); a negative
\* duration keeps its sign even when it rounds to zero ("-0.00").
SecondsString(d) ==
    LET a  == IF d < 0 THEN -d ELSE d
        cs == (2 * a + 5) \div 10
    IN  (IF d < 0 THEN "-" ELSE "") \o ToString(cs \div 100) \o "."
          \o TwoDigits(cs % 100)

\* ------------------------------------------------------------------------
\* package strings
\* ------------------------------------------------------------------------

\* strings.Split(s, sep): the fields of s between the separators
RECURSIVE SplitFrom(_, _, _, _)
SplitFrom(s, sep, cur, acc) ==
    IF s = <<>> THEN Append(acc, cur)
    ELSE IF Head(s) = sep THEN SplitFrom(Tail(s), sep, "", Append(acc, cur))
    ELSE SplitFrom(Tail(s), sep, cur \o Head(s), acc)

Split(s, sep) == SplitFrom(s, sep, "", <<>>)

\* ------------------------------------------------------------------------
\* What the service returns
\* ------------------------------------------------------------------------

Nil == <<>>

Ptr(x) == <<x>>

Noon == 12 * 60 * 60 * TicksPerSecond

\* the ARN of a state machine: arn:aws:states:<region>:<account>:stateMachine:<name>
Arn(name) ==
    <<"arn", ":", "aws", ":", "states", ":", "ap-northeast-1", ":",
      "1234", "5678", "9012", ":", "stateMachine", ":", name>>

ArnPool == {Arn("A"), Arn("B")}

\* the instants time.Now() can return, the clock never running backwards:
\* 2024-01-31 12:00, whose cutoff is 2023-11-31, that is 2023-12-01 12:00,
\* and one tick past noon of the next day
NowPool == {Date(2024, 1, 31, Noon), Date(2024, 2, 1, Noon + 1)}

EarliestNow == Date(2024, 1, 31, Noon)

\* what time.Now() can return when the clock last read was last
ClockReadings(last) ==
    { t \in NowPool :
        t.day > last.day \/ (t.day = last.day /\ t.tod >= last.tod) }

Execution(start, stop, status) ==
    [StartDate |-> start, StopDate |-> stop, Status |-> status]

\* executions the service may hold, none started after the earliest instant
ExecPool ==
    { \* no start timestamp
      Execution(Nil, Ptr(Date(2024, 1, 10, Noon)), "SUCCEEDED"),
      \* still running: no stop timestamp
      Execution(Ptr(Date(2024, 1, 15, Noon)), Nil, "RUNNING"),
      \* started exactly at the cutoff of the first instant, one tick before
      \* the cutoff of the second; ran 30 s
      Execution(Ptr(Date(2023, 12, 1, Noon)),
                Ptr(Date(2023, 12, 1, Noon + 30 * TicksPerSecond)), "SUCCEEDED"),
      \* started exactly at the cutoff of the second instant; ran 10 s
      Execution(Ptr(Date(2023, 12, 1, Noon + 1)),
                Ptr(Date(2023, 12, 1, Noon + 1 + 10 * TicksPerSecond)), "SUCCEEDED"),
      \* ran 20 s across the midnight of new year
      Execution(Ptr(Date(2023, 12, 31, TicksPerDay - 10 * TicksPerSecond)),
                Ptr(Date(2024, 1, 1, 10 * TicksPerSecond)), "FAILED"),
      \* stop timestamp 4 ms before the start timestamp
      Execution(Ptr(Date(2024, 1, 30, Noon)),
                Ptr(Date(2024, 1, 30, Noon - 2)), "ABORTED") }

RECURSIVE SeqsUpTo(_, _)
SeqsUpTo(S, n) ==
    IF n = 0 THEN {<<>>}
    ELSE LET shorter == SeqsUpTo(S, n - 1)
         IN  shorter \cup {Append(s, x) : s \in shorter, x \in S}

RECURSIVE TotalExecs(_)
TotalExecs(ms) ==
    IF ms = <<>> THEN 0 ELSE Len(Head(ms).execs) + TotalExecs(Tail(ms))

\* the state machines of the account in listing order, each with its
\* executions in listing order; ARNs are unique
Upstreams ==
    LET Machines == [arn : ArnPool, execs : SeqsUpTo(ExecPool, MaxExecs)]
    IN  { ms \in SeqsUpTo(Machines, Cardinality(ArnPool)) :
            /\ \A i, j \in DOMAIN ms : i # j => ms[i].arn # ms[j].arn
            /\ TotalExecs(ms) <= MaxExecs }

\* ------------------------------------------------------------------------
\* SfnRecord, SfnRecords
\* ------------------------------------------------------------------------

SfnRecord(name, startDate, duration, status) ==
    [Name |-> name, StartDate |-> startDate, Duration |-> duration,
     Status |-> status]

\* SfnRecord.StringDurationSecond
StringDurationSecond(r) == SecondsString(r.Duration)

\* durationToSeconfString
durationToSeconfString(d) == SecondsString(d)

RECURSIVE MaxFrom(_, _)
MaxFrom(r, max) ==
    IF r = <<>> THEN max
    ELSE MaxFrom(Tail(r), IF Head(r).Duration > max THEN Head(r).Duration ELSE max)

RECURSIVE MinFrom(_, _)
MinFrom(r, min) ==
    IF r = <<>> THEN min
    ELSE MinFrom(Tail(r), IF Head(r).Duration < min THEN Head(r).Duration ELSE min)

RECURSIVE TotalFrom(_, _)
TotalFrom(r, total) ==
    IF r = <<>> THEN total ELSE TotalFrom(Tail(r), total + Head(r).Duration)

MaxDurationFromZero(r) == MaxFrom(r, 0)

\* SfnRecords.MaxDuration (r is not empty)
MaxDuration(r) == MaxFrom(r, r[1].Duration)

\* SfnRecords.MinDuration (r is not empty)
MinDuration(r) == MinFrom(r, r[1].Duration)

\* SfnRecords.AvgDuration (r is not empty)
AvgDuration(r) == Quot(TotalFrom(r, 0), Len(r))

\* ------------------------------------------------------------------------
\* The loop body of main: one execution of one state machine
\* ------------------------------------------------------------------------

Incomplete(e) == e.StartDate = Nil \/ e.StopDate = Nil

\* the cutoff of the retention window, from the clock reading t
Cutoff(t) == AddDate(t, 0, -2, 0)

TransformRunningUntilNow(records, arn, e, t) ==
    IF e.StartDate = Nil THEN records
    ELSE IF Before(e.StartDate[1], Cutoff(t)) THEN records
    ELSE Append(records,
                SfnRecord(Split(arn, ":")[7],
                          FormatDateOnly(e.StartDate[1]),
                          Sub(IF e.StopDate = Nil THEN t ELSE e.StopDate[1],
                              e.StartDate[1]),
                          e.Status))

TransformDatedNow(records, arn, e, t) ==
    IF Incomplete(e) THEN records
    ELSE IF Before(e.StartDate[1], Cutoff(t)) THEN records
    ELSE Append(records,
                SfnRecord(Split(arn, ":")[7],
                          FormatDateOnly(t),
                          Sub(e.StopDate[1], e.StartDate[1]),
                          e.Status))

\* the record list after the loop body has seen execution e of the state
\* machine arn, time.Now() returning t
Transform(records, arn, e, t) ==
    IF Incomplete(e) THEN records
    ELSE IF Before(e.StartDate[1], Cutoff(t)) THEN records
    ELSE Append(records,
                SfnRecord(Split(arn, ":")[7],
                          FormatDateOnly(e.StartDate[1]),
                          Sub(e.StopDate[1], e.StartDate[1]),
                          e.Status))

\* ------------------------------------------------------------------------
\* The CSV files
\* ------------------------------------------------------------------------

CsvHeader == <<"Name", "StartDate", "Duration", "Status">>

CsvRow(r) == <<r.Name, r.StartDate, StringDurationSecond(r), r.Status>>

CsvRowsDroppingLast(records) ==
    <<CsvHeader>> \o [i \in 1..(Len(records) - 1) |-> CsvRow(records[i])]

\* what createCsvFile writes: the header, then one row per record
CsvRows(records) ==
    <<CsvHeader>> \o [i \in 1..Len(records) |-> CsvRow(records[i])]

AggregateHeader == <<"Name", "Max", "Min", "Avg", "Len">>

AggregateRow(name, r) ==
    <<name, durationToSeconfString(MaxDuration(r)),
      durationToSeconfString(MinDuration(r)),
      durationToSeconfString(AvgDuration(r)), ToString(Len(r))>>

\* SfnRecords.aggregate: the loop that fills the map
RECURSIVE GroupFrom(_, _)
GroupFrom(r, aggregated) ==
    IF r = <<>> THEN aggregated
    ELSE LET record == Head(r)
             old == IF record.Name \in DOMAIN aggregated
                    THEN aggregated[record.Name] ELSE <<>>
         IN  GroupFrom(Tail(r),
                       [n \in DOMAIN aggregated \cup {record.Name} |->
                          IF n = record.Name THEN Append(old, record)
                          ELSE aggregated[n]])

EmptyMap == [n \in {} |-> <<>>]

GroupOverwriting(r) ==
    [n \in {r[i].Name : i \in DOMAIN r} |->
       LET last == CHOOSE i \in DOMAIN r :
                     /\ r[i].Name = n
                     /\ \A j \in DOMAIN r : r[j].Name = n => j <= i
       IN  <<r[last]>>]

Group(r) == GroupFrom(r, EmptyMap)

\* the orders in which a range over a map of these keys can visit them
Orders(keys) ==
    { o \in SeqsUpTo(keys, Cardinality(keys)) :
        /\ Len(o) = Cardinality(keys)
        /\ \A i, j \in DOMAIN o : i # j => o[i] # o[j] }

\* what createAggregateCsvFile writes when the map is visited in this order
AggregateRows(aggregated, order) ==
    <<AggregateHeader>> \o
      [i \in 1..Len(order) |-> AggregateRow(order[i], aggregated[order[i]])]

StrictPrefixes(rows) == { SubSeq(rows, 1, k) : k \in 0..(Len(rows) - 1) }

NoFile == [exists |-> FALSE, rows |-> <<>>, open |-> FALSE]

\* ------------------------------------------------------------------------
\* State
\* ------------------------------------------------------------------------

VARIABLES
    upstream,     \* what the service holds: never changes
    pc,           \* where main is
    err,          \* the error main panicked with, "none" while there is none
    run,          \* the number of this run
    machines,     \* machines.StateMachines
    mi,           \* index of the state machine the outer loop is at
    executions,   \* executions.Executions
    ei,           \* index of the execution the inner loop is at
    records,      \* records
    now,          \* the last reading of the clock
    sfn,          \* sfn.csv
    agg,          \* aggregate.csv
    aggregated,   \* the map of aggregate()
    calls,        \* listing calls made in this run
    created,      \* the files os.Create has created or truncated in this run
    kept,         \* for each record, <<mi, ei>> of the execution it is from
    prev          \* the files and the kept executions of the previous run

vars == <<upstream, pc, err, run, machines, mi, executions, ei, records, now,
          sfn, agg, aggregated, calls, created, kept, prev>>

NoPrev == [sfn |-> NoFile, agg |-> NoFile, kept |-> <<>>]

Init ==
    /\ upstream \in Upstreams
    /\ pc = "start"
    /\ err = "none"
    /\ run = 1
    /\ machines = <<>>
    /\ mi = 1
    /\ executions = <<>>
    /\ ei = 1
    /\ records = <<>>
    /\ now = EarliestNow
    /\ sfn = NoFile
    /\ agg = NoFile
    /\ aggregated = EmptyMap
    /\ calls = 0
    /\ created = {}
    /\ kept = <<>>
    /\ prev = NoPrev

Panic(e) == pc' = "aborted" /\ err' = e

\* flag.Parse and the check of -profile; createSfnSession
ParseFlags ==
    /\ pc = "start"
    /\ \E profile \in {"", "dev"} :
         IF profile = "" THEN Panic("profile")
         ELSE pc' = "list_machines" /\ err' = err
    /\ UNCHANGED <<upstream, run, machines, mi, executions, ei, records, now,
                   sfn, agg, aggregated, calls, created, kept, prev>>

\* svc.ListStateMachines, and records := SfnRecords{}
ListStateMachines ==
    /\ pc = "list_machines"
    /\ calls' = calls + 1
    /\ \/ /\ Panic("list_machines")
          /\ UNCHANGED <<machines, mi, records>>
       \/ /\ machines' = [i \in 1..Len(upstream) |-> upstream[i].arn]
          /\ mi' = 1
          /\ records' = <<>>
          /\ pc' = "machines"
          /\ err' = err
    /\ UNCHANGED <<upstream, run, executions, ei, now, sfn, agg, aggregated,
                   created, kept, prev>>

ListExecutionsIgnoringError ==
    /\ pc = "machines"
    /\ mi <= Len(machines)
    /\ calls' = calls + 1
    /\ \/ /\ err' = "list_executions"
          /\ pc' = pc
          /\ mi' = mi + 1
          /\ UNCHANGED <<executions, ei>>
       \/ /\ executions' = upstream[mi].execs
          /\ ei' = 1
          /\ IF upstream[mi].execs = <<>>
             THEN mi' = mi + 1 /\ pc' = "machines"
             ELSE mi' = mi /\ pc' = "executions"
          /\ err' = err
    /\ UNCHANGED <<upstream, run, machines, records, now, sfn, agg,
                   aggregated, created, kept, prev>>

\* the head of the outer loop: svc.ListExecutions for the next state machine
ListExecutions ==
    /\ pc = "machines"
    /\ mi <= Len(machines)
    /\ calls' = calls + 1
    /\ \/ /\ Panic("list_executions")
          /\ UNCHANGED <<mi, executions, ei>>
       \/ /\ executions' = upstream[mi].execs
          /\ ei' = 1
          /\ IF upstream[mi].execs = <<>>
             THEN mi' = mi + 1 /\ pc' = "machines"
             ELSE mi' = mi /\ pc' = "executions"
          /\ err' = err
    /\ UNCHANGED <<upstream, run, machines, records, now, sfn, agg,
                   aggregated, created, kept, prev>>

\* one pass of the inner loop
ProcessExecution ==
    /\ pc = "executions"
    /\ LET e == executions[ei]
       IN  \E t \in ClockReadings(now) :
             \* the clock is read only once both timestamps are known present
             /\ now' = IF Incomplete(e) THEN now ELSE t
             /\ Incomplete(e) => t = now
             /\ records' = Transform(records, machines[mi], e, t)
             /\ kept' = IF Len(records') > Len(records)
                        THEN Append(kept, <<mi, ei>>) ELSE kept
    /\ IF ei < Len(executions)
       THEN ei' = ei + 1 /\ mi' = mi /\ pc' = pc
       ELSE ei' = 1 /\ mi' = mi + 1 /\ pc' = "machines"
    /\ UNCHANGED <<upstream, err, run, machines, executions, sfn, agg,
                   aggregated, calls, created, prev>>

\* createCsvFile, first half: os.Create("sfn.csv")
CreateCsv ==
    /\ pc = "machines"
    /\ mi > Len(machines)
    /\ \/ /\ Panic("csv_create")
          /\ UNCHANGED <<sfn, created>>
       \/ /\ sfn' = [exists |-> TRUE, rows |-> <<>>, open |-> TRUE]
          /\ created' = created \cup {"sfn.csv"}
          /\ pc' = "csv_write"
          /\ err' = err
    /\ UNCHANGED <<upstream, run, machines, mi, executions, ei, records, now,
                   agg, aggregated, calls, kept, prev>>

WriteCsvLeavingOpenOnError ==
    /\ pc = "csv_write"
    /\ \/ /\ \E written \in StrictPrefixes(CsvRows(records)) :
               sfn' = [sfn EXCEPT !.rows = written]
          /\ Panic("csv_write")
       \/ /\ sfn' = [sfn EXCEPT !.rows = CsvRows(records), !.open = FALSE]
          /\ pc' = "aggregate"
          /\ err' = err
    /\ UNCHANGED <<upstream, run, machines, mi, executions, ei, records, now,
                   agg, aggregated, calls, created, kept, prev>>

\* createCsvFile, second half: the header, the rows, Flush, and the deferred
\* Close.  A failed write leaves some of the rows in the file.
WriteCsv ==
    /\ pc = "csv_write"
    /\ \/ /\ \E written \in StrictPrefixes(CsvRows(records)) :
               sfn' = [sfn EXCEPT !.rows = written, !.open = FALSE]
          /\ Panic("csv_write")
       \/ /\ sfn' = [sfn EXCEPT !.rows = CsvRows(records), !.open = FALSE]
          /\ pc' = "aggregate"
          /\ err' = err
    /\ UNCHANGED <<upstream, run, machines, mi, executions, ei, records, now,
                   agg, aggregated, calls, created, kept, prev>>

\* records.aggregate up to os.Create("aggregate.csv")
Aggregate ==
    /\ pc = "aggregate"
    /\ aggregated' = Group(records)
    /\ \/ /\ Panic("agg_create")
          /\ UNCHANGED <<agg, created>>
       \/ /\ agg' = [exists |-> TRUE, rows |-> <<>>, open |-> TRUE]
          /\ created' = created \cup {"aggregate.csv"}
          /\ pc' = "agg_write"
          /\ err' = err
    /\ UNCHANGED <<upstream, run, machines, mi, executions, ei, records, now,
                   sfn, calls, kept, prev>>

WriteAggregateRollingBack ==
    /\ pc = "agg_write"
    /\ \E order \in Orders(DOMAIN aggregated) :
         \/ /\ \E written \in StrictPrefixes(AggregateRows(aggregated, order)) :
                 agg' = [agg EXCEPT !.rows = written, !.open = FALSE]
            /\ sfn' = NoFile
            /\ Panic("agg_write")
         \/ /\ agg' = [agg EXCEPT !.rows = AggregateRows(aggregated, order),
                                  !.open = FALSE]
            /\ sfn' = sfn
            /\ pc' = "done"
            /\ err' = err
    /\ UNCHANGED <<upstream, run, machines, mi, executions, ei, records, now,
                   aggregated, calls, created, kept, prev>>

\* createAggregateCsvFile after os.Create: the header, one row per group in
\* the order the range over the map happens to take, Flush, the deferred
\* Close, and the return through aggregate to main
WriteAggregate ==
    /\ pc = "agg_write"
    /\ \E order \in Orders(DOMAIN aggregated) :
         \/ /\ \E written \in StrictPrefixes(AggregateRows(aggregated, order)) :
                 agg' = [agg EXCEPT !.rows = written, !.open = FALSE]
            /\ Panic("agg_write")
         \/ /\ agg' = [agg EXCEPT !.rows = AggregateRows(aggregated, order),
                                  !.open = FALSE]
            /\ pc' = "done"
            /\ err' = err
    /\ UNCHANGED <<upstream, run, machines, mi, executions, ei, records, now,
                   sfn, aggregated, calls, created, kept, prev>>

\* the program is started again after a run that succeeded; the files of
\* that run are still there
Rerun ==
    /\ pc = "done"
    /\ run < MaxRuns
    /\ run' = run + 1
    /\ prev' = [sfn |-> sfn, agg |-> agg, kept |-> kept]
    /\ pc' = "start"
    /\ err' = "none"
    /\ machines' = <<>>
    /\ mi' = 1
    /\ executions' = <<>>
    /\ ei' = 1
    /\ records' = <<>>
    /\ aggregated' = EmptyMap
    /\ calls' = 0
    /\ created' = {}
    /\ kept' = <<>>
    /\ UNCHANGED <<upstream, now, sfn, agg>>

Next ==
    \/ ParseFlags
    \/ ListStateMachines
    \/ ListExecutions
    \/ ProcessExecution
    \/ CreateCsv
    \/ WriteCsv
    \/ Aggregate
    \/ WriteAggregate
    \/ Rerun

Spec == Init /\ [][Next]_vars

\* ------------------------------------------------------------------------
\* Properties
\* ------------------------------------------------------------------------

\* the execution that <<machine index, execution index>> names
ExecAt(k) == upstream[k[1]].execs[k[2]]

\* the executions the loops of this run have been through
Processed ==
    { k \in (DOMAIN upstream) \X (1..MaxExecs + 1) :
        /\ k[2] \in DOMAIN upstream[k[1]].execs
        /\ \/ k[1] < mi
           \/ k[1] = mi /\ pc = "executions" /\ k[2] < ei }

Range(f) == { f[i] : i \in DOMAIN f }

RawWritten ==
    pc \in {"aggregate", "agg_write", "done"} \/ err \in {"agg_create", "agg_write"}

Grouped == pc \in {"agg_write", "done"} \/ err \in {"agg_create", "agg_write"}

RECURSIVE SumLen(_, _)
SumLen(m, names) ==
    IF names = {} THEN 0
    ELSE LET n == CHOOSE x \in names : TRUE
         IN  Len(m[n]) + SumLen(m, names \ {n})

\* C1: an execution without a start timestamp or without a stop timestamp
\* adds no record, and every record is from an execution that has both.
C1_NoRecordWithoutBothTimestamps ==
    /\ Len(kept) = Len(records)
    /\ \A i \in DOMAIN kept :
         ExecAt(kept[i]).StartDate # <<>> /\ ExecAt(kept[i]).StopDate # <<>>
    /\ \A k \in Processed :
         (ExecAt(k).StartDate = <<>> \/ ExecAt(k).StopDate = <<>>)
            => k \notin Range(kept)

\* the loops have been through an execution without a start timestamp and
\* one without a stop timestamp, and through one more that gave a record
C1_Witness ==
    /\ \E k \in Processed : ExecAt(k).StartDate = <<>>
    /\ \E k \in Processed : ExecAt(k).StopDate = <<>>
    /\ pc = "done"

\* the execution the inner loop has just been through, <<>> when the last
\* step was not a pass of the inner loop
JustProcessed ==
    IF pc = "executions" /\ ei > 1 THEN <<mi, ei - 1>>
    ELSE IF pc = "machines" /\ mi > 1 /\ upstream[mi - 1].execs # <<>>
         THEN <<mi - 1, Len(upstream[mi - 1].execs)>>
         ELSE <<>>

\* C2: an execution with both timestamps gives a record exactly when its
\* start is not strictly before the clock reading minus two calendar months;
\* a start exactly at the cutoff is kept.  (now is the reading taken for the
\* execution just gone through.)
C2_KeptIffNotBeforeCutoff ==
    (/\ JustProcessed # <<>>
     /\ ExecAt(JustProcessed).StartDate # <<>>
     /\ ExecAt(JustProcessed).StopDate # <<>>)
    => LET start == ExecAt(JustProcessed).StartDate[1]
           c == AddDate(now, 0, -2, 0)
           strictlyBefore ==
               start.day < c.day \/ (start.day = c.day /\ start.tod < c.tod)
           isLast == kept # <<>> /\ kept[Len(kept)] = JustProcessed
       IN  /\ strictlyBefore => ~isLast
           /\ ~strictlyBefore => isLast

\* the execution just gone through started exactly at the cutoff and its
\* record is the last of the list
C2_Witness ==
    /\ JustProcessed # <<>>
    /\ kept # <<>>
    /\ kept[Len(kept)] = JustProcessed
    /\ ExecAt(JustProcessed).StartDate[1] = AddDate(now, 0, -2, 0)

\* C3: when a listing call fails the run is over: that call was the last
\* listing call, and no output file has been created or written.
C3_ListingErrorAbortsWithoutOutput ==
    err \in {"list_machines", "list_executions"} =>
        /\ pc = "aborted"
        /\ calls = (IF err = "list_machines" THEN 1 ELSE mi + 1)
        /\ created = {}
        /\ sfn = prev.sfn
        /\ agg = prev.agg

\* the listing of the second state machine failed with a record already in
\* the list
C3_Witness ==
    /\ err = "list_executions"
    /\ mi = 2
    /\ records # <<>>

\* C4: after a successful raw write sfn.csv is the header and then one row
\* per record in list order, and the list is in discovery order.
C4_RawRowsAreTheRecordsInOrder ==
    RawWritten =>
        /\ sfn.exists
        /\ Len(sfn.rows) = Len(records) + 1
        /\ sfn.rows[1] = <<"Name", "StartDate", "Duration", "Status">>
        /\ \A i \in DOMAIN records :
             /\ sfn.rows[i + 1][1] = records[i].Name
             /\ sfn.rows[i + 1][2] = records[i].StartDate
             /\ sfn.rows[i + 1][3] = SecondsString(records[i].Duration)
             /\ sfn.rows[i + 1][4] = records[i].Status
             /\ records[i].Name = machines[kept[i][1]][Len(machines[kept[i][1]])]
             /\ records[i].Status = ExecAt(kept[i]).Status
        /\ \A i, j \in DOMAIN kept :
             i < j => \/ kept[i][1] < kept[j][1]
                      \/ kept[i][1] = kept[j][1] /\ kept[i][2] < kept[j][2]

\* both state machines have a row in a file written in full
C4_Witness ==
    /\ pc = "done"
    /\ Len(records) = 2
    /\ kept[1][1] # kept[2][1]

\* C5: for every group Max is the largest duration, Min the smallest, Avg
\* the sum divided by the count with the quotient truncated, hence
\* Min <= Avg <= Max; 10 s, 20 s, 30 s give 30.00, 10.00, 20.00 and 3.
C5_MaxMinAvgOfEveryGroup ==
    /\ Grouped =>
         \A n \in DOMAIN aggregated :
            LET g == aggregated[n]
                D == { g[i].Duration : i \in DOMAIN g }
                max == MaxDuration(g)
                min == MinDuration(g)
                avg == AvgDuration(g)
                sum == TotalFrom(g, 0)
            IN  /\ max \in D /\ \A d \in D : d <= max
                /\ min \in D /\ \A d \in D : min <= d
                /\ sum >= 0 => avg * Len(g) <= sum /\ sum < (avg + 1) * Len(g)
                /\ sum < 0 => (avg - 1) * Len(g) < sum /\ sum <= avg * Len(g)
                /\ min <= avg /\ avg <= max
                /\ pc = "done" =>
                     \E i \in DOMAIN agg.rows :
                        agg.rows[i] = <<n, SecondsString(max), SecondsString(min),
                                        SecondsString(avg), ToString(Len(g))>>
    /\ LET rec(sec) == SfnRecord("A", "2024-01-01", sec * TicksPerSecond,
                                 "SUCCEEDED")
       IN  AggregateRow("A", <<rec(10), rec(20), rec(30)>>) =
             <<"A", "30.00", "10.00", "20.00", "3">>

\* a group of two records whose second is the longer one, with the average
\* strictly between them, written to aggregate.csv
C5_Witness ==
    /\ pc = "done"
    /\ \E n \in DOMAIN aggregated :
          /\ Len(aggregated[n]) = 2
          /\ aggregated[n][1].Duration < aggregated[n][2].Duration
          /\ MinDuration(aggregated[n]) < AvgDuration(aggregated[n])
          /\ AvgDuration(aggregated[n]) < MaxDuration(aggregated[n])

\* C6: the groups partition the record list by name: one group per name
\* that occurs, none empty, each the records of its name in list order, the
\* counts adding up to the number of data rows of sfn.csv.
C6_GroupsPartitionTheRecords ==
    Grouped =>
        /\ DOMAIN aggregated = { records[i].Name : i \in DOMAIN records }
        /\ \A n \in DOMAIN aggregated :
             /\ aggregated[n] # <<>>
             /\ aggregated[n] = SelectSeq(records, LAMBDA r : r.Name = n)
             /\ Len(aggregated[n]) =
                  Cardinality({ i \in DOMAIN records : records[i].Name = n })
        /\ SumLen(aggregated, DOMAIN aggregated) = Len(records)
        /\ SumLen(aggregated, DOMAIN aggregated) = Len(sfn.rows) - 1
        /\ pc = "done" =>
             /\ Len(agg.rows) = Cardinality(DOMAIN aggregated) + 1
             /\ \A n \in DOMAIN aggregated :
                  \E i \in DOMAIN agg.rows :
                     /\ agg.rows[i][1] = n
                     /\ agg.rows[i][5] = ToString(Len(aggregated[n]))

\* a group of two records
C6_Witness ==
    /\ pc = "done"
    /\ \E n \in DOMAIN aggregated : Len(aggregated[n]) = 2

\* C7 as claimed: no record has a negative duration.
C7_DurationNeverNegative ==
    \A i \in DOMAIN records : records[i].Duration >= 0

\* C7 amended: the duration of every record is the stop timestamp minus the
\* start timestamp of its execution, negative when the stop is the earlier.
C7_DurationIsStopMinusStart ==
    \A i \in DOMAIN records :
       LET start == ExecAt(kept[i]).StartDate[1]
           stop == ExecAt(kept[i]).StopDate[1]
           earlier == stop.day < start.day
                        \/ (stop.day = start.day /\ stop.tod < start.tod)
       IN  /\ records[i].Duration =
                (stop.day - start.day) * TicksPerDay + stop.tod - start.tod
           /\ earlier <=> records[i].Duration < 0

\* a record of an execution that stopped before it started, in sfn.csv
C7_Witness ==
    /\ RawWritten
    /\ \E i \in DOMAIN records :
          /\ records[i].Duration < 0
          /\ sfn.rows[i + 1][3] = "-0.00"

\* C8 as claimed: a second run over the same executions writes the same
\* sfn.csv rows and the same set of aggregate.csv rows, whenever it runs.
C8_SameOutputWheneverRun ==
    (run > 1 /\ pc = "done") =>
        /\ sfn.rows = prev.sfn.rows
        /\ Range(agg.rows) = Range(prev.agg.rows)

\* C8 amended: it does so when every execution passes the cutoff test in
\* the second run exactly if it passed it in the first.
C8_SameOutputWhenSameExecutionsKept ==
    (run > 1 /\ pc = "done" /\ kept = prev.kept) =>
        /\ sfn.rows = prev.sfn.rows
        /\ Range(agg.rows) = Range(prev.agg.rows)

\* a later second run that kept the same executions and wrote the aggregate
\* rows in another order
C8_Witness ==
    /\ run > 1
    /\ pc = "done"
    /\ kept = prev.kept
    /\ kept # <<>>
    /\ now # EarliestNow
    /\ agg.rows # prev.agg.rows

\* C9: when aggregate.csv cannot be created or written, the run fails and
\* sfn.csv stays as it was written: all its rows, closed.
C9_RawFileSurvivesAggregateFailure ==
    err \in {"agg_create", "agg_write"} =>
        /\ pc = "aborted"
        /\ "sfn.csv" \in created
        /\ sfn = [exists |-> TRUE, rows |-> CsvRows(records), open |-> FALSE]

\* the write of aggregate.csv failed part way, sfn.csv holding a data row
C9_Witness ==
    /\ err = "agg_write"
    /\ agg.rows # <<>>
    /\ Len(sfn.rows) >= 2

\* C10: fetch, write raw, aggregate, write aggregate, in this order, ending
\* in success with both files written in full or in abort at the first
\* error, no file left open.
C10_StepsInOrderOneOutcome ==
    /\ "sfn.csv" \in created =>
          /\ calls = Len(upstream) + 1
          /\ mi > Len(machines)
          /\ err \notin {"profile", "list_machines", "list_executions"}
    /\ "aggregate.csv" \in created =>
          /\ "sfn.csv" \in created
          /\ sfn.exists /\ ~sfn.open
          /\ sfn.rows = CsvRows(records)
    /\ err \in {"csv_create", "csv_write"} =>
          /\ "aggregate.csv" \notin created
          /\ agg = prev.agg
    /\ pc = "done" =>
          /\ err = "none"
          /\ created = {"sfn.csv", "aggregate.csv"}
          /\ sfn.exists /\ ~sfn.open /\ Len(sfn.rows) = Len(records) + 1
          /\ agg.exists /\ ~agg.open
          /\ Len(agg.rows) = Cardinality(DOMAIN aggregated) + 1
    /\ pc = "aborted" => err # "none" /\ ~sfn.open /\ ~agg.open
    /\ err # "none" => pc = "aborted"
    /\ sfn.open => pc = "csv_write"
    /\ agg.open => pc = "agg_write"

\* the write of sfn.csv failed part way: the file holds some rows, is
\* closed, and aggregate.csv was never created
C10_Witness ==
    /\ pc = "aborted"
    /\ err = "csv_write"
    /\ sfn.rows # <<>>
    /\ ~agg.exists

====
